---------------------------- MODULE Spec2Model ----------------------------
(* Verification model of the water ripple simulations.                      *)
(*   Final_code.py : the height-field wave grid (class WaterSimulation and  *)
(*                   the GLUT callbacks display, mouse_click, keyboard,     *)
(*                   special_keys).                                         *)
(*   new.py        : the kinematic ripple / raindrop variant.               *)
(* Heights are exact rationals (see Num below); the rounding of the         *)
(* floating-point build is not modelled.                                    *)
EXTENDS Integers, Sequences, FiniteSets, TLC

----------------------------------------------------------------------------
(* Sizes of the model.  The program runs an 800 x 600 window over a 200 x   *)
(* 200 grid; the model keeps the code's formulas and scales the extents.    *)

\* WaterSimulation.resolution (200 in the source), scaled.
resolution == 4
\* WaterSimulation.width (800 in the source), scaled.
width == 5
\* WaterSimulation.height (600 in the source), scaled.
height == 4
\* Most mouse clicks in one run of the model.
MaxClicks == 2
\* Most rain drops in one run of the model: a display call starts only if
\* the whole loop of its simulate_rain fits.
MaxRain == 2
\* Most base-Base fraction digits a height may carry before a further
\* non-paused step is cut off (one digit is added per step).
MaxDepth == 1

----------------------------------------------------------------------------
(* Program constants of Final_code.py.                                      *)

\* damping = 0.015 = DampNum / DampDen
DampNum == 3
DampDen == 200
\* wave_speed is counted in units of 1/SpeedDen (0.05).
SpeedDen == 20
\* wave_speed = 0.3 at construction
SpeedInit == 6
\* special_keys clamps wave_speed to [0.05, 1.0]
SpeedMin == 1
SpeedMax == 20
\* rain_intensity = 5 at construction, clamped to [1, 20]
IntensityInit == 5
IntensityMin == 1
IntensityMax == 20
\* add_drop adds 3.0
DropAmount == 3
\* the neighbour sum is multiplied by 0.25 = 1 / QuarterDen
QuarterDen == 4

----------------------------------------------------------------------------
(* Sizes and constants of new.py.  Lengths across the window are counted in *)
(* units of 1/XDen (wind_direction moves in steps of 0.5), radii in units   *)
(* of 1/RadiusDen (expansion_speed moves in steps of 0.2) and opacity in    *)
(* units of fade_speed.                                                     *)

\* cloud_y (550 in the source), scaled: raindrops start at
\* cloud_y - cloud_height // 2 and must reach the water within MaxTicks.
cloud_y == 4
\* cloud_height (60 in the source), scaled.
cloud_height == 1
\* Opacity 1.0 in units of fade_speed (1.0 / 0.02 = 50 in the source), scaled.
OpacityOne == 2
\* Most timer callbacks in one run of the model.
MaxTicks == 3
\* Most left-button presses on new.py's window in one run of the model.
MaxRipplesClicked == 1
\* Most w, a, s, Up and Down key presses in one run of the model.
MaxKeys == 1

\* cloud_x = 400, cloud_width = 200
cloud_x == 400
cloud_width == 200
\* glutInitWindowSize(800, 600); mouseClick uses 600 - y
win_width == 800
win_height == 600
XDen == 2
RadiusDen == 5
\* base_radius = 5
base_radius == 5
\* expansion_speed = 0.8 at start; specialKey keeps it >= 0.2
ExpansionInit == 4
ExpansionMin == 1
\* random.randint(3, 5) new raindrops per tick
SpawnMin == 3
SpawnMax == 5

----------------------------------------------------------------------------
(* Exact arithmetic.  A height is a sequence <<d0, d1, ..., dk>> standing   *)
(* for d0 + d1/Base + ... + dk/Base^k with d0 any integer, 0 <= dj < Base   *)
(* for j >= 1 and dk # 0 when k >= 1: every rational whose denominator      *)
(* divides a power of Base has exactly one such form, so equality of        *)
(* heights is equality of sequences.                                        *)

Base == QuarterDen * SpeedDen * DampDen

Zero == <<0>>

NumOfInt(n) == <<n>>

Pad(a, n) == [i \in 1..n |-> IF i <= Len(a) THEN a[i] ELSE 0]

RECURSIVE Strip(_)
Strip(a) ==
    IF Len(a) > 1 /\ a[Len(a)] = 0 THEN Strip(SubSeq(a, 1, Len(a) - 1)) ELSE a

\* Carries from digit i down to digit 1 (the integer part keeps the rest).
RECURSIVE Carry(_, _, _)
Carry(a, i, c) ==
    IF i = 1 THEN [a EXCEPT ![1] = a[1] + c]
    ELSE LET v == a[i] + c
         IN  Carry([a EXCEPT ![i] = v % Base], i - 1, v \div Base)

Normal(a) == Strip(Carry(a, Len(a), 0))

Max2(a, b) == IF a >= b THEN a ELSE b

NAdd(a, b) ==
    LET n == Max2(Len(a), Len(b))
        pa == Pad(a, n)
        pb == Pad(b, n)
    IN  Normal([i \in 1..n |-> pa[i] + pb[i]])

\* k * a for an integer k
NScale(k, a) == Normal([i \in 1..Len(a) |-> k * a[i]])

NSub(a, b) == NAdd(a, NScale(-1, b))

\* a / Base
NShift(a) == Normal(<<0>> \o a)

\* a * num / den, for den a divisor of Base
NMulFrac(a, num, den) == NShift(NScale(num * (Base \div den), a))

Depth(a) == Len(a) - 1

----------------------------------------------------------------------------
(* The grid.                                                                *)

Idx == 0..(resolution - 1)
Cells == Idx \X Idx

\* np.zeros((resolution, resolution))
ZeroField == [p \in Cells |-> Zero]

Interior(p) ==
    /\ 1 <= p[1] /\ p[1] <= resolution - 2
    /\ 1 <= p[2] /\ p[2] <= resolution - 2

Border(p) == p \in Cells /\ ~Interior(p)

\* Digit i of the height a (0 past its last digit).
Digit(a, i) == IF i <= Len(a) THEN a[i] ELSE 0

\* The sum of digit i over the first k cells of f, row by row.
RECURSIVE DigitSum(_, _, _)
DigitSum(f, i, k) ==
    IF k = 0 THEN 0
    ELSE DigitSum(f, i, k - 1)
         + Digit(f[<<(k - 1) \div resolution, (k - 1) % resolution>>], i)

FieldDepth(f) ==
    LET ds == {Depth(f[p]) : p \in Cells}
    IN  CHOOSE d \in ds : \A e \in ds : e <= d

\* The sum of all cells of f.
FieldSum(f) ==
    Normal([i \in 1..(FieldDepth(f) + 1) |-> DigitSum(f, i, resolution * resolution)])

\* int(): truncation toward zero of num / den, den > 0
TruncDiv(num, den) == IF num >= 0 THEN num \div den ELSE -((-num) \div den)

\* int(x / self.width * (self.resolution - 1))
grid_x(x) == TruncDiv(x * (resolution - 1), width)
\* int(y / self.height * (self.resolution - 1))
grid_y(y) == TruncDiv(y * (resolution - 1), height)


\* if 0 <= grid_x < self.resolution and 0 <= grid_y < self.resolution
InGrid(gx, gy) ==
    /\ 0 <= gx /\ gx < resolution
    /\ 0 <= gy /\ gy < resolution

\* add_drop with the two indices exchanged: self.current_wave[grid_x, grid_y]
add_drop_transposed(f, x, y) ==
    IF InGrid(grid_x(x), grid_y(y))
    THEN [f EXCEPT ![<<grid_x(x), grid_y(y)>>] = NAdd(@, NumOfInt(DropAmount))]
    ELSE f

\* add_drop(x, y) on the array f: self.current_wave[grid_y, grid_x] += 3.0
add_drop(f, x, y) ==
    IF InGrid(grid_x(x), grid_y(y))
    THEN [f EXCEPT ![<<grid_y(y), grid_x(x)>>] = NAdd(@, NumOfInt(DropAmount))]
    ELSE f

\* neighbors with the fourth term left out
neighbors_three(cur, p) ==
    NMulFrac(NAdd(NAdd(cur[<<p[1] - 1, p[2]>>], cur[<<p[1] + 1, p[2]>>]),
                  cur[<<p[1], p[2] - 1>>]),
             1, QuarterDen)

\* (cur[y-1,x] + cur[y+1,x] + cur[y,x-1] + cur[y,x+1]) * 0.25
neighbors(cur, p) ==
    NMulFrac(NAdd(NAdd(NAdd(cur[<<p[1] - 1, p[2]>>], cur[<<p[1] + 1, p[2]>>]),
                       cur[<<p[1], p[2] - 1>>]),
                  cur[<<p[1], p[2] + 1>>]),
             1, QuarterDen)

\* 2 * cur[y,x] - prev[y,x] + wave_speed * (neighbors - cur[y,x])
wave_eq(cur, prev, ws, p) ==
    NAdd(NSub(NScale(2, cur[p]), prev[p]),
         NMulFrac(NSub(neighbors(cur, p), cur[p]), ws, SpeedDen))

\* next_wave: zeros, written on range(1, resolution - 1) in both directions
next_wave(cur, prev, ws) ==
    [p \in Cells |-> IF Interior(p) THEN wave_eq(cur, prev, ws, p) ELSE Zero]

\* next_wave * (1 - self.damping)
damped(f) == [p \in Cells |-> NMulFrac(f[p], DampDen - DampNum, DampDen)]

----------------------------------------------------------------------------
(* State of Final_code.py.  The two arrays are objects: current_wave and    *)
(* previous_wave hold references into heap, so that sharing of storage is   *)
(* visible.                                                                 *)

Refs == {1, 2, 3}

VARIABLES
    heap,            \* the live numpy arrays: reference -> field
    current_wave,    \* self.current_wave (a reference)
    previous_wave,   \* self.previous_wave (a reference)
    wave_speed,      \* self.wave_speed, in units of 1/SpeedDen
    paused,          \* self.paused
    rain_mode,       \* self.rain_mode
    rain_intensity,  \* self.rain_intensity
    pc,              \* the callback in progress: idle, simulate_rain, mouse_click
    dropIdx,         \* iterations done by the loop of simulate_rain
    rendered,        \* the field the render pass of the display call read
    tickStart,       \* the field on entry to simulate_rain
    lastDrop,        \* arguments of the add_drop call just made, or <<>>
    calls            \* add_drop calls so far

gridVars == <<heap, current_wave, previous_wave, wave_speed, paused, rain_mode,
              rain_intensity, pc, dropIdx, rendered, tickStart, lastDrop, calls>>

Cur == heap[current_wave]
Prev == heap[previous_wave]

\* WaterSimulation.__init__
GridInit ==
    /\ heap = [r \in {1, 2} |-> ZeroField]
    /\ current_wave = 1
    /\ previous_wave = 2
    /\ wave_speed = SpeedInit
    /\ paused = FALSE
    /\ rain_mode = FALSE
    /\ rain_intensity = IntensityInit
    /\ pc = "idle"
    /\ dropIdx = 0
    /\ rendered = ZeroField
    /\ tickStart = ZeroField
    /\ lastDrop = <<>>
    /\ calls = 0

\* A reference no live array uses, for a newly allocated array.
FreshRef(live) == CHOOSE r \in Refs \ live : \A q \in Refs \ live : r <= q

\* update_waves past its pause check: next_wave is computed,
\* self.previous_wave = self.current_wave, and self.current_wave becomes the
\* new array next_wave * (1 - self.damping)
stepped(h, cw, pw, ws) ==
    LET new == FreshRef({cw})
        result == damped(next_wave(h[cw], h[pw], ws))
    IN  [heap |-> [r \in {cw, new} |-> IF r = new THEN result ELSE h[cw]],
         current_wave |-> new,
         previous_wave |-> cw]

\* update_waves without "if self.paused: return"
update_waves_always(h, cw, pw, ws, isPaused) == stepped(h, cw, pw, ws)

\* update_waves: the heap, current_wave and previous_wave it leaves
update_waves(h, cw, pw, ws, isPaused) ==
    IF isPaused
    THEN [heap |-> h, current_wave |-> cw, previous_wave |-> pw]
    ELSE stepped(h, cw, pw, ws)

\* self.current_wave[...] += 3.0 acts on the array current_wave refers to
drop_into(h, cw, x, y) == [h EXCEPT ![cw] = add_drop(h[cw], x, y)]

----------------------------------------------------------------------------
(* State of new.py (the kinematic variant).                                 *)

VARIABLES
    ripples,          \* list of [x, y, radius, opacity]
    raindrops,        \* list of [x, y, speed, dx, size]
    expansion_speed,  \* in units of 1/RadiusDen
    paused_k,         \* new.py's global paused
    wind_direction,   \* in units of 1/XDen
    ticks,            \* timer callbacks so far
    clicks,           \* left-button presses so far
    keys              \* wind and speed key presses so far

kinVars == <<ripples, raindrops, expansion_speed, paused_k, wind_direction,
             ticks, clicks, keys>>

vars == <<gridVars, kinVars>>

----------------------------------------------------------------------------
(* The callbacks of Final_code.py.  GLUT runs one callback at a time, so a  *)
(* callback starts only when none is in progress (pc = "idle").             *)

\* Positions random.uniform(0, width) and random.uniform(0, height) may
\* return: the documented range is closed at both ends.
RainXs == 0..width
RainYs == 0..height

\* Window coordinates GLUT reports for a click inside the window.
MouseXs == 0..(width - 1)
MouseYs == 0..(height - 1)

\* The render loop reading after update_waves instead of before it
render_reads_late(h, cw, u) == u.heap[u.current_wave]

\* The field the render loop of display() reads: it runs before
\* update_waves(), whose result is u
render_reads(h, cw, u) == h[cw]

\* display(): the render pass reads current_wave, then update_waves() runs,
\* then simulate_rain() is entered.
Display ==
    /\ pc = "idle"
    /\ paused \/ (FieldDepth(Cur) < MaxDepth /\ FieldDepth(Prev) < MaxDepth)
    /\ rain_mode => calls + rain_intensity <= MaxRain
    /\ LET u == update_waves(heap, current_wave, previous_wave, wave_speed, paused)
       IN  /\ rendered' = render_reads(heap, current_wave, u)
           /\ heap' = u.heap
           /\ current_wave' = u.current_wave
           /\ previous_wave' = u.previous_wave
           /\ tickStart' = u.heap[u.current_wave]
    /\ pc' = "simulate_rain"
    /\ dropIdx' = 0
    /\ UNCHANGED <<wave_speed, paused, rain_mode, rain_intensity, lastDrop, calls>>
    /\ UNCHANGED kinVars

\* The loop of simulate_rain running once too often
rain_loop_runs_extra(mode, done, intensity) == mode /\ done <= intensity

\* simulate_rain(): whether the body of its loop runs once more
rain_loop_runs(mode, done, intensity) == mode /\ done < intensity

\* One iteration of the loop of simulate_rain.
RainDrop ==
    /\ pc = "simulate_rain"
    /\ rain_loop_runs(rain_mode, dropIdx, rain_intensity)
    /\ \E x \in RainXs, y \in RainYs :
          /\ heap' = drop_into(heap, current_wave, x, y)
          /\ lastDrop' = <<x, y>>
    /\ dropIdx' = dropIdx + 1
    /\ calls' = calls + 1
    /\ UNCHANGED <<current_wave, previous_wave, wave_speed, paused, rain_mode,
                   rain_intensity, pc, rendered, tickStart>>
    /\ UNCHANGED kinVars

\* simulate_rain() returns, display() swaps the buffers and returns.
RainReturn ==
    /\ pc = "simulate_rain"
    /\ ~rain_loop_runs(rain_mode, dropIdx, rain_intensity)
    /\ pc' = "idle"
    /\ dropIdx' = 0
    /\ rendered' = ZeroField
    /\ tickStart' = ZeroField
    /\ lastDrop' = <<>>
    /\ UNCHANGED <<heap, current_wave, previous_wave, wave_speed, paused,
                   rain_mode, rain_intensity, calls>>
    /\ UNCHANGED kinVars

\* mouse_click(button, state, x, y), left button pressed:
\* water_sim.add_drop(x, water_sim.height - y)
MouseClick ==
    /\ pc = "idle"
    /\ calls < MaxClicks
    /\ \E x \in MouseXs, y \in MouseYs :
          /\ heap' = drop_into(heap, current_wave, x, height - y)
          /\ lastDrop' = <<x, height - y>>
    /\ calls' = calls + 1
    /\ pc' = "mouse_click"
    /\ UNCHANGED <<current_wave, previous_wave, wave_speed, paused, rain_mode,
                   rain_intensity, dropIdx, rendered, tickStart>>
    /\ UNCHANGED kinVars

\* mouse_click(button, state, x, y), any other button or a release: nothing
MouseOther ==
    /\ pc = "idle"
    /\ \E button \in {"LEFT", "RIGHT"}, state \in {"DOWN", "UP"} :
          ~(button = "LEFT" /\ state = "DOWN")
    /\ UNCHANGED vars

\* mouse_click returns.
MouseReturn ==
    /\ pc = "mouse_click"
    /\ pc' = "idle"
    /\ lastDrop' = <<>>
    /\ UNCHANGED <<heap, current_wave, previous_wave, wave_speed, paused,
                   rain_mode, rain_intensity, dropIdx, rendered, tickStart, calls>>
    /\ UNCHANGED kinVars

\* keyboard(key, x, y)
Keyboard(key) ==
    /\ pc = "idle"
    /\ paused' = IF key = " " THEN ~paused ELSE paused
    /\ rain_mode' = IF key # " " /\ key = "r" THEN ~rain_mode ELSE rain_mode
    /\ UNCHANGED <<heap, current_wave, previous_wave, wave_speed, rain_intensity,
                   pc, dropIdx, rendered, tickStart, lastDrop, calls>>
    /\ UNCHANGED kinVars

Min2(a, b) == IF a <= b THEN a ELSE b

\* special_keys without the min() of the Up key
special_keys_unclamped(key, ws, ri) ==
    IF key = "UP" THEN [wave_speed |-> ws + 1, rain_intensity |-> ri]
    ELSE IF key = "DOWN"
    THEN [wave_speed |-> Max2(ws - 1, SpeedMin), rain_intensity |-> ri]
    ELSE IF key = "RIGHT"
    THEN [wave_speed |-> ws, rain_intensity |-> Min2(ri + 1, IntensityMax)]
    ELSE IF key = "LEFT"
    THEN [wave_speed |-> ws, rain_intensity |-> Max2(ri - 1, IntensityMin)]
    ELSE [wave_speed |-> ws, rain_intensity |-> ri]

\* special_keys(key, x, y): the wave_speed and rain_intensity it leaves
special_keys(key, ws, ri) ==
    IF key = "UP" THEN [wave_speed |-> Min2(ws + 1, SpeedMax), rain_intensity |-> ri]
    ELSE IF key = "DOWN"
    THEN [wave_speed |-> Max2(ws - 1, SpeedMin), rain_intensity |-> ri]
    ELSE IF key = "RIGHT"
    THEN [wave_speed |-> ws, rain_intensity |-> Min2(ri + 1, IntensityMax)]
    ELSE IF key = "LEFT"
    THEN [wave_speed |-> ws, rain_intensity |-> Max2(ri - 1, IntensityMin)]
    ELSE [wave_speed |-> ws, rain_intensity |-> ri]

SpecialKey(key) ==
    /\ pc = "idle"
    /\ LET k == special_keys(key, wave_speed, rain_intensity)
       IN  /\ wave_speed' = k.wave_speed
           /\ rain_intensity' = k.rain_intensity
    /\ UNCHANGED <<heap, current_wave, previous_wave, paused, rain_mode,
                   pc, dropIdx, rendered, tickStart, lastDrop, calls>>
    /\ UNCHANGED kinVars

----------------------------------------------------------------------------
\* The module-level assignments of new.py
KinInit ==
    /\ ripples = <<>>
    /\ raindrops = <<>>
    /\ expansion_speed = ExpansionInit
    /\ paused_k = FALSE
    /\ wind_direction = 0
    /\ ticks = 0
    /\ clicks = 0
    /\ keys = 0

Init == GridInit /\ KinInit

\* The wave grid under mouse clicks, the space key and the idle display
\* callback (rain stays off).
Next ==
    \/ Display
    \/ RainReturn
    \/ MouseClick
    \/ MouseOther
    \/ MouseReturn
    \/ Keyboard(" ")
    \/ Keyboard("x")

Spec == Init /\ [][Next]_vars

\* The wave grid under rain: the r and space keys, the Left key (fewer drops
\* per frame) and the idle display callback.
NextRain ==
    \/ Display
    \/ RainDrop
    \/ RainReturn
    \/ Keyboard(" ")
    \/ Keyboard("r")
    \/ SpecialKey("LEFT")

SpecRain == Init /\ [][NextRain]_vars

\* Only the four arrow keys (and one key special_keys ignores).
NextKeys ==
    \/ SpecialKey("UP")
    \/ SpecialKey("DOWN")
    \/ SpecialKey("RIGHT")
    \/ SpecialKey("LEFT")
    \/ SpecialKey("F1")

SpecKeys == Init /\ [][NextKeys]_vars

\* current[r,c] = 1 for one cell, every other cell 0
Impulse(p) == [q \in Cells |-> IF q = p THEN NumOfInt(1) ELSE Zero]

\* update_waves as a function of its inputs: a single impulse at an interior
\* cell, previous_wave zero, any wave_speed of the clamped range.
ImpulseInit ==
    /\ KinInit
    /\ \E p \in Cells :
          /\ Interior(p)
          /\ heap = [r \in {1, 2} |-> IF r = 1 THEN Impulse(p) ELSE ZeroField]
    /\ current_wave = 1
    /\ previous_wave = 2
    /\ wave_speed \in SpeedMin..SpeedMax
    /\ paused = FALSE
    /\ rain_mode = FALSE
    /\ rain_intensity = IntensityInit
    /\ pc = "idle"
    /\ dropIdx = 0
    /\ rendered = ZeroField
    /\ tickStart = ZeroField
    /\ lastDrop = <<>>
    /\ calls = 0

NextImpulse ==
    \/ Display
    \/ RainReturn

SpecImpulse == ImpulseInit /\ [][NextImpulse]_vars

----------------------------------------------------------------------------
(* The claims about Final_code.py.                                          *)

\* The screen coordinate d = <<x, y>> lies in [0,W) x [0,H).
InViewport(d) == 0 <= d[1] /\ d[1] < width /\ 0 <= d[2] /\ d[2] < height

\* The step is a call of add_drop (its arguments are lastDrop').
AddDropStep == calls' = calls + 1

\* The step is display() running update_waves.
UpdateStep == pc = "idle" /\ pc' = "simulate_rain"

\* C1: the rain tick does nothing when rain is off or the simulation is
\* paused: while simulate_rain runs with rain_mode false or paused true, it
\* has made no injection and current_wave is as it was on entry.
C1_RainIdleWhenOffOrPaused ==
    (pc = "simulate_rain" /\ (~rain_mode \/ paused))
        => (dropIdx = 0 /\ Cur = tickStart)

\* C2: add_drop with a screen coordinate outside [0,W) x [0,H) never changes
\* current_wave.
C2_OutsideViewportRejected ==
    [][(AddDropStep /\ ~InViewport(lastDrop')) => heap'[current_wave'] = Cur]_vars

\* C3: add_drop at (x, y) inside [0,W) x [0,H) adds exactly 3.0 to the cell
\* of row floor(y/H*(N-1)) and column floor(x/W*(N-1)) of current_wave,
\* changes no other cell of it and no cell of previous_wave, and the two
\* fields are different arrays.
C3_InjectOneCell ==
    [][(AddDropStep /\ InViewport(lastDrop')) =>
          LET r == (lastDrop'[2] * (resolution - 1)) \div height
              c == (lastDrop'[1] * (resolution - 1)) \div width
          IN  /\ <<r, c>> \in Cells
              /\ heap'[current_wave'][<<r, c>>] = NAdd(Cur[<<r, c>>], <<3>>)
              /\ \A p \in Cells \ {<<r, c>>} : heap'[current_wave'][p] = Cur[p]
              /\ heap'[previous_wave'] = Prev
              /\ current_wave' # previous_wave'
              /\ current_wave # previous_wave]_vars

\* C3 witness: a click inside the viewport injected into a field that steps
\* and an earlier injection had shaped.
C3_Witness ==
    /\ pc = "mouse_click"
    /\ InViewport(lastDrop)
    /\ FieldDepth(Cur) >= 1
    /\ Prev # ZeroField

\* The four neighbours of cell p.
Around(p) ==
    {<<p[1] - 1, p[2]>>, <<p[1] + 1, p[2]>>, <<p[1], p[2] - 1>>, <<p[1], p[2] + 1>>}

\* (1 - damping) * a, with damping = 0.015
TimesOneMinusDamping(a) == NMulFrac(a, 985, 1000)

\* The field C4 states for an impulse at p and wave speed ws/20.
ImpulseResult(p, ws) ==
    [q \in Cells |->
        IF q = p
        THEN TimesOneMinusDamping(NSub(<<2>>, NMulFrac(<<1>>, ws, 20)))
        ELSE IF q \in Around(p) /\ Interior(q)
        THEN TimesOneMinusDamping(NMulFrac(NMulFrac(<<1>>, ws, 20), 1, 4))
        ELSE Zero]

\* C4: one non-paused step from a single impulse at an interior cell, with
\* previous all zero, leaves (2 - waveSpeed)(1 - damping) at that cell,
\* (waveSpeed * 0.25)(1 - damping) at each interior neighbour, 0 at every
\* other cell (the border included), and previous equal to the old current.
C4_ImpulseStep ==
    [][\A p \in Cells :
          (UpdateStep /\ ~paused /\ Interior(p) /\ Cur = Impulse(p)
              /\ Prev = ZeroField)
          => /\ heap'[current_wave'] = ImpulseResult(p, wave_speed)
             /\ heap'[previous_wave'] = Impulse(p)]_vars

\* C4 witness: the step was taken from an impulse that has an interior
\* neighbour and a border neighbour, at the initial wave speed 0.3.
C4_Witness ==
    /\ pc = "simulate_rain"
    /\ Prev = Impulse(<<1, 1>>)
    /\ wave_speed = 6
    /\ Cur[<<1, 2>>] # Zero
    /\ Cur[<<0, 1>>] = Zero

\* C5: while paused, update_waves changes nothing: not the two fields, not
\* wave_speed, rain_mode, rain_intensity or paused.
C5_PausedStepNoOp ==
    [][(UpdateStep /\ paused) =>
          UNCHANGED <<heap, current_wave, previous_wave, wave_speed, rain_mode,
                      rain_intensity, paused>>]_vars

\* C5 witness: update_waves has run while paused on fields that are not zero.
C5_Witness ==
    /\ pc = "simulate_rain"
    /\ paused
    /\ FieldDepth(Cur) >= 1
    /\ Prev # ZeroField

SpecialKeys == {"UP", "DOWN", "RIGHT", "LEFT", "F1"}

\* C6: wave_speed stays in [0.05, 1.0] (1..20 twentieths) and rain_intensity
\* in [1, 20]; an increment at the upper bound and a decrement at the lower
\* bound leave the value there; each key changes only its own parameter.
C6_KeysClamp ==
    /\ wave_speed \in 1..20
    /\ rain_intensity \in 1..20
    /\ \A key \in SpecialKeys :
          LET k == special_keys(key, wave_speed, rain_intensity)
          IN  /\ key \in {"UP", "DOWN"} => k.rain_intensity = rain_intensity
              /\ key \in {"RIGHT", "LEFT"} => k.wave_speed = wave_speed
              /\ (key = "UP" /\ wave_speed = 20) => k.wave_speed = 20
              /\ (key = "DOWN" /\ wave_speed = 1) => k.wave_speed = 1
              /\ (key = "RIGHT" /\ rain_intensity = 20) => k.rain_intensity = 20
              /\ (key = "LEFT" /\ rain_intensity = 1) => k.rain_intensity = 1
              /\ (key = "UP" /\ wave_speed < 20) => k.wave_speed = wave_speed + 1
              /\ (key = "DOWN" /\ wave_speed > 1) => k.wave_speed = wave_speed - 1
              /\ (key = "RIGHT" /\ rain_intensity < 20)
                    => k.rain_intensity = rain_intensity + 1
              /\ (key = "LEFT" /\ rain_intensity > 1)
                    => k.rain_intensity = rain_intensity - 1

\* C6 witness: both parameters were driven to a bound.
C6_Witness == wave_speed = 20 /\ rain_intensity = 1

\* C7: with rain on and the simulation not paused, a rain tick makes exactly
\* rain_intensity injections, each at a position that maps into the grid,
\* and the sum of current_wave grows by 3.0 per injection: by
\* 3.0 * rain_intensity over the tick.
C7_RainTickInjects ==
    (pc = "simulate_rain" /\ rain_mode /\ ~paused) =>
        /\ dropIdx <= rain_intensity
        /\ lastDrop # <<>> => InGrid(grid_x(lastDrop[1]), grid_y(lastDrop[2]))
        /\ FieldSum(Cur) = NAdd(FieldSum(tickStart), <<3 * dropIdx>>)
        /\ ENABLED RainReturn =>
              /\ dropIdx = rain_intensity
              /\ FieldSum(Cur) = NAdd(FieldSum(tickStart), <<3 * rain_intensity>>)

\* C7 witness: a tick of two drops has run to its end.
C7_Witness ==
    /\ pc = "simulate_rain"
    /\ rain_mode
    /\ ~paused
    /\ rain_intensity = 2
    /\ dropIdx = 2

\* C8, as stated: the field the renderer reads in a frame is the output of
\* that frame's step.
C8_RenderReadsStepOutput == pc = "simulate_rain" => rendered = tickStart

\* C8, amended: in a display call the render pass comes first, then the
\* step, then the rain tick: the renderer reads the field as it was before
\* the frame's step, which after a non-paused step is previous_wave, and the
\* frame's rain does not touch it.
C8_RenderReadsPreStep ==
    pc = "simulate_rain" =>
        rendered = (IF paused THEN tickStart ELSE Prev)

\* C8 witness: a frame rendered a field that is not zero, stepped it and rained.
C8_Witness ==
    /\ pc = "simulate_rain"
    /\ ~paused
    /\ rendered # ZeroField
    /\ dropIdx >= 1

\* C9: every border cell of current_wave is 0 in every reachable state.
C9_BorderZero == \A p \in Cells : Border(p) => Cur[p] = Zero

----------------------------------------------------------------------------
(* new.py.  A ripple is <<x, y, radius, opacity>>, a raindrop is            *)
(* <<x, y, speed, dx, size>>, as in the lists of the source.                *)

\* Outcomes of random.uniform(2.0, 5.0), the falling speed
FallSpeeds == {3}
\* Outcomes of random.uniform(-1.0, 1.0), the horizontal drift, in 1/XDen
Drifts == {1}
\* Outcomes of random.uniform(8.0, 20.0), the drop size
Sizes == {8}
\* An outcome of random.randint(cloud_x - cloud_width // 2, cloud_x + cloud_width // 2)
SpawnXs == {cloud_x - cloud_width \div 2}
\* Window coordinates of the clicks followed: two opposite corners.
ClickPoints == {<<0, 0>>, <<win_width - 1, win_height - 1>>}

\* The raindrops one tick may append.
NewDrops ==
    {<<XDen * x, cloud_y - cloud_height \div 2, speed, dx, size>> :
        x \in SpawnXs, speed \in FallSpeeds, dx \in Drifts, size \in Sizes}

\* ripple[2] += expansion_speed; ripple[3] -= fade_speed
grown(ripple, speed) == <<ripple[1], ripple[2], ripple[3] + speed, ripple[4] - 1>>

\* The test of the first loop with >= for >
ripple_kept_at_zero(ripple) == ripple[4] >= 0

\* if ripple[3] > 0: updated_ripples.append(ripple)
ripple_kept(ripple) == ripple[4] > 0

\* drop[0] += drop[3] + wind_direction; drop[1] -= drop[2]
moved(drop, wind) ==
    <<drop[1] + drop[4] + wind, drop[2] - drop[3], drop[3], drop[4], drop[5]>>

\* if drop[1] <= 0
drop_landed(drop) == drop[2] <= 0

\* [drop[0], 0, base_radius + drop[4], 1.0]
splash(drop) == <<drop[1], 0, RadiusDen * (base_radius + drop[5]), OpacityOne>>

\* The first loop of updateRainAndRipples
update_ripples(rs, speed) ==
    SelectSeq([i \in 1..Len(rs) |-> grown(rs[i], speed)], ripple_kept)

\* The second loop of updateRainAndRipples: the ripples and raindrops it leaves
update_raindrops(rs, ds, wind) ==
    LET fallen == [i \in 1..Len(ds) |-> moved(ds[i], wind)]
        down == SelectSeq(fallen, drop_landed)
    IN  [ripples |-> rs \o [i \in 1..Len(down) |-> splash(down[i])],
         raindrops |-> SelectSeq(fallen, LAMBDA d : ~drop_landed(d))]

\* updateRainAndRipples(value): whether the body guarded by "if not paused" runs
tick_runs(isPaused) == ~isPaused

\* updateRainAndRipples(value), the timer callback
Tick ==
    /\ ticks < MaxTicks
    /\ ticks' = ticks + 1
    /\ IF tick_runs(paused_k)
       THEN LET u == update_raindrops(update_ripples(ripples, expansion_speed),
                                      raindrops, wind_direction)
            IN  /\ ripples' = u.ripples
                /\ \E n \in SpawnMin..SpawnMax :
                      \E new \in [1..n -> NewDrops] :
                         raindrops' = u.raindrops \o new
       ELSE UNCHANGED <<ripples, raindrops>>
    /\ UNCHANGED <<expansion_speed, paused_k, wind_direction, clicks, keys>>
    /\ UNCHANGED gridVars

\* mouseClick(button, state, x, y), left button pressed
MouseClickK ==
    /\ clicks < MaxRipplesClicked
    /\ clicks' = clicks + 1
    /\ \E c \in ClickPoints :
          ripples' = Append(ripples,
                            <<XDen * c[1], win_height - c[2],
                              RadiusDen * base_radius, OpacityOne>>)
    /\ UNCHANGED <<raindrops, expansion_speed, paused_k, wind_direction, ticks, keys>>
    /\ UNCHANGED gridVars

\* keyboardListener(key, x, y): the paused and wind_direction it leaves
keyboardListener(key, isPaused, wind) ==
    IF key = " " THEN [paused |-> ~isPaused, wind_direction |-> wind]
    ELSE IF key = "w" THEN [paused |-> isPaused, wind_direction |-> wind + 1]
    ELSE IF key = "a" THEN [paused |-> isPaused, wind_direction |-> wind - 1]
    ELSE IF key = "s" THEN [paused |-> isPaused, wind_direction |-> 0]
    ELSE [paused |-> isPaused, wind_direction |-> wind]

\* The space key
PauseKey ==
    /\ paused_k' = keyboardListener(" ", paused_k, wind_direction).paused
    /\ UNCHANGED <<ripples, raindrops, expansion_speed, wind_direction, ticks,
                   clicks, keys>>
    /\ UNCHANGED gridVars

\* The w, a and s keys
WindKey(key) ==
    /\ keys < MaxKeys
    /\ keys' = keys + 1
    /\ LET k == keyboardListener(key, paused_k, wind_direction)
       IN  /\ paused_k' = k.paused
           /\ wind_direction' = k.wind_direction
    /\ UNCHANGED <<ripples, raindrops, expansion_speed, ticks, clicks>>
    /\ UNCHANGED gridVars

\* specialKey(key, x, y): the expansion_speed it leaves
specialKey(key, speed) ==
    IF key = "UP" THEN speed + 1
    ELSE IF key = "DOWN" THEN Max2(ExpansionMin, speed - 1)
    ELSE speed

SpeedKey(key) ==
    /\ keys < MaxKeys
    /\ keys' = keys + 1
    /\ expansion_speed' = specialKey(key, expansion_speed)
    /\ UNCHANGED <<ripples, raindrops, paused_k, wind_direction, ticks, clicks>>
    /\ UNCHANGED gridVars

NextKin ==
    \/ Tick
    \/ MouseClickK
    \/ PauseKey
    \/ WindKey("w")
    \/ WindKey("a")
    \/ WindKey("s")
    \/ SpeedKey("UP")
    \/ SpeedKey("DOWN")

SpecKin == Init /\ [][NextKin]_vars

----------------------------------------------------------------------------
(* The claim about new.py.                                                  *)

\* The step is a timer callback.
TickStep == ticks' = ticks + 1

\* Every ripple is visible and every raindrop is above the water.
ListsLive ==
    /\ \A i \in 1..Len(ripples) : ripples[i][4] > 0
    /\ \A j \in 1..Len(raindrops) : raindrops[j][2] > 0

\* What a timer callback does to the two lists.
TickEffect ==
    LET fading == SelectSeq(ripples, LAMBDA r : r[4] - 1 > 0)
        landing == SelectSeq(raindrops, LAMBDA d : d[2] - d[3] <= 0)
        falling == SelectSeq(raindrops, LAMBDA d : d[2] - d[3] > 0)
    IN  IF paused_k
        THEN UNCHANGED <<ripples, raindrops>>
        ELSE /\ Len(ripples') = Len(fading) + Len(landing)
             /\ \A i \in 1..Len(fading) :
                   ripples'[i] = <<fading[i][1], fading[i][2],
                                   fading[i][3] + expansion_speed, fading[i][4] - 1>>
             /\ \A j \in 1..Len(landing) :
                   ripples'[Len(fading) + j] =
                      <<landing[j][1] + landing[j][4] + wind_direction, 0,
                        5 * (5 + landing[j][5]), OpacityOne>>
             /\ Len(raindrops') - Len(falling) \in 3..5
             /\ \A j \in 1..Len(falling) :
                   raindrops'[j] = <<falling[j][1] + falling[j][4] + wind_direction,
                                     falling[j][2] - falling[j][3], falling[j][3],
                                     falling[j][4], falling[j][5]>>

\* C10: every ripple has opacity > 0 and every raindrop has y > 0 in every
\* reachable state; a non-paused tick removes each ripple whose opacity after
\* fading is <= 0, removes each raindrop whose y after falling is <= 0 and
\* appends for it one ripple at (drop x, 0) with radius base_radius + size
\* and opacity 1.0; a paused tick changes neither list.
C10_Kinematic == [](ListsLive) /\ [][TickStep => TickEffect]_vars

\* C10 witness: after three non-paused ticks the clicked ripple has faded
\* away and raindrops have landed: only their ripples, on the water line,
\* are left.
C10_Witness ==
    /\ clicks >= 1
    /\ ticks = 3
    /\ ~paused_k
    /\ Len(ripples) >= 1
    /\ \A i \in 1..Len(ripples) : ripples[i][2] = 0
    /\ Len(raindrops) > SpawnMax

=============================================================================
